---- MODULE Spec2Model ----
(***************************************************************************)
(* The series / episode / media document of the gallery server and the     *)
(* stored assets it refers to.  Two builds of the routes exist in the      *)
(* repository: the S3 routes (asset deletes are awaited S3 calls, stored   *)
(* references are S3 URLs) and the local-disk routes (asset deletes are    *)
(* synchronous unlinks, stored references are file names).  `backend`      *)
(* fixes which build runs.  Every request handler is one action up to its  *)
(* first await; DeleteFromS3Done resumes a handler that awaits a delete.   *)
(***************************************************************************)
EXTENDS Integers, Sequences, FiniteSets, TLC

\* ------------------------------------------------------------------ bounds
\* Requests started in one behaviour.
MaxOps == 2
\* Largest episodeCount a client asks for.
MaxCount == 2
\* Longest mediaIds list of a reorder request (SpecReorder).
MaxIdsLen == 3
\* Most media items of the episode SpecReorder starts from.
MaxMedia == 3

\* The request slots: handlers that may be in flight at the same time.
Procs == {1, 2}

VARIABLES
    backend,    \* "s3" or "local": which build of the routes is running
    file,       \* the content of uploads/showData.json
    assets,     \* the stored objects (S3 objects, or files under uploads/)
    nextId,     \* the uuids handed out so far
    ops,        \* the requests started so far (also the clock of createdAt)
    pc,         \* per slot: "idle", or "await" inside `await deleteFromS3`
    req,        \* per slot: the request being (or last) handled
    loaded,     \* per slot: the handler's `data`, as getData returned it
    todo,       \* per slot: the keys the handler has still to delete
    issued,     \* per slot: the keys deleteFromS3 was called with, in order
    failed,     \* per slot: those of them whose delete returned false
    saved,      \* per slot: the document the handler passed to saveData, if any
    resp,       \* per slot: the response sent, status 0 while none is
    overlapped, \* per slot: another handler loaded or saved the document
                \* between this handler's load and its save
    deleted     \* the keys a delete was ever issued for

vars == <<backend, file, assets, nextId, ops, pc, req, loaded, todo, issued,
          failed, saved, resp, overlapped, deleted>>

\* ------------------------------------------------------------------ values
\* JavaScript's undefined / null for a string-valued field.
UNDEF == "undefined"
NULL == "null"

\* undefined / null for a field that holds a file name (a token sequence).
UndefName == <<UNDEF>>
NullName == <<NULL>>

\* An optional request field: <<>> when the field is absent, <<v>> when given.
None == <<>>
Some(v) == <<v>>

\* Asset references.  form: "null", "undefined", "s3url" (what getS3Url
\* returns), "filename" (a bare file name, as the local-disk routes store),
\* "path" (a legacy '/uploads/<folder>/<file>' path), "key" (an S3 key).
NullRef == [form |-> "null", folder |-> "", n |-> 0]
UndefRef == [form |-> "undefined", folder |-> "", n |-> 0]
Key(folder, n) == [form |-> "key", folder |-> folder, n |-> n]
NoKey == NullRef
FileName(n) == [form |-> "filename", folder |-> "", n |-> n]
LocalPath(folder, n) == [form |-> "path", folder |-> folder, n |-> n]

\* JavaScript truthiness of a reference (a non-empty string).
Truthy(ref) == ref.form \notin {"null", "undefined"}

\* `https://${bucketName}.s3.${region}.amazonaws.com/${key}`
GetS3Url(key) == [form |-> "s3url", folder |-> key.folder, n |-> key.n]

\* The key of a full S3 URL; null for every other reference.
GetKeyFromUrl(url) ==
    IF ~Truthy(url) THEN NoKey
    ELSE IF url.form = "s3url" THEN Key(url.folder, url.n)
    ELSE IF url.form = "path" THEN NoKey
    ELSE NoKey

\* ------------------------------------------------------------------ episodes
\* `Episode ${k}`
EpisodeTitle(k) == "Episode " \o ToString(k)

\* { title: `Episode ${k}`, thumbnail: null, media: [] }
NewEpisode(k) ==
    [title |-> EpisodeTitle(k), thumbnail |-> NullRef, music |-> UndefRef,
     musicOriginalName |-> UndefName, media |-> <<>>]

\* for (let i = 0; i < episodeCount; i++) episodes.push({title: `Episode ${i + 1}`, ...})
RECURSIVE InitEpisodes(_, _, _)
InitEpisodes(episodes, i, episodeCount) ==
    IF i < episodeCount
    THEN InitEpisodes(Append(episodes, NewEpisode(i + 1)), i + 1, episodeCount)
    ELSE episodes

\* while (episodes.length < episodeCount) episodes.push(...)
RECURSIVE PadEpisodes(_, _)
PadEpisodes(episodes, episodeCount) ==
    IF Len(episodes) < episodeCount
    THEN PadEpisodes(Append(episodes, NewEpisode(Len(episodes) + 1)), episodeCount)
    ELSE episodes

\* Array.prototype.slice(0, end)
Slice0(s, end) ==
    LET e == IF end < 0
             THEN (IF Len(s) + end < 0 THEN 0 ELSE Len(s) + end)
             ELSE (IF end > Len(s) THEN Len(s) ELSE end)
    IN  SubSeq(s, 1, e)

\* A removal that also turns the rest around.
Splice1Reversing(s, index) ==
    LET n == Len(s) - 1
    IN  [i \in 1..n |-> IF n + 1 - i < index + 1 THEN s[n + 1 - i] ELSE s[n + 2 - i]]

\* Array.prototype.splice(index, 1), index 0-based
Splice1(s, index) == SubSeq(s, 1, index) \o SubSeq(s, index + 2, Len(s))

\* Array.prototype.findIndex by id, 0-based, -1 when absent
FindIndex(s, id) ==
    IF \E i \in 1..Len(s) : s[i].id = id
    THEN (CHOOSE i \in 1..Len(s) : s[i].id = id /\ \A j \in 1..(i - 1) : s[j].id # id) - 1
    ELSE -1

\* ------------------------------------------------------------------ reorder
\* mediaMap.set(m.id, m): a Map keeps a key's first insertion place and its
\* last value.
MapSet(map, m) ==
    IF \E i \in 1..Len(map) : map[i].id = m.id
    THEN [i \in 1..Len(map) |-> IF map[i].id = m.id THEN m ELSE map[i]]
    ELSE Append(map, m)

RECURSIVE MediaMap(_, _)
MediaMap(map, media) ==
    IF media = <<>> THEN map
    ELSE MediaMap(MapSet(map, Head(media)), Tail(media))

MapHas(map, id) == \E i \in 1..Len(map) : map[i].id = id
MapGet(map, id) == map[CHOOSE i \in 1..Len(map) : map[i].id = id]
MapDelete(map, id) == SelectSeq(map, LAMBDA m : m.id # id)

\* mediaIds.forEach(id => { if (mediaMap.has(id)) { push; delete } })
RECURSIVE ReorderLoop(_, _, _)
ReorderLoop(map, mediaIds, reorderedMedia) ==
    IF mediaIds = <<>> THEN <<map, reorderedMedia>>
    ELSE LET id == Head(mediaIds) IN
         IF MapHas(map, id)
         THEN ReorderLoop(MapDelete(map, id), Tail(mediaIds),
                          Append(reorderedMedia, MapGet(map, id)))
         ELSE ReorderLoop(map, Tail(mediaIds), reorderedMedia)

\* A reordering that forgets the items mediaIds did not name.
ReorderMediaNamedOnly(media, mediaIds) ==
    ReorderLoop(MediaMap(<<>>, media), mediaIds, <<>>)[2]

\* A reordering that leaves the order as it is.
ReorderMediaKeepOrder(media, mediaIds) == media

\* A reordering that puts the items mediaIds did not name first.
ReorderMediaRestFirst(media, mediaIds) ==
    LET r == ReorderLoop(MediaMap(<<>>, media), mediaIds, <<>>)
    IN  r[1] \o r[2]

\* The whole reordering: the named items, then mediaMap.forEach(push).
ReorderMedia(media, mediaIds) ==
    LET r == ReorderLoop(MediaMap(<<>>, media), mediaIds, <<>>)
    IN  r[2] \o r[1]

\* ------------------------------------------------------------------ uploads
\* An uploaded file's originalname is a sequence of tokens, "." among them:
\* <<"clip", ".", "mp4">> is clip.mp4.
RECURSIVE LastDot(_, _)
LastDot(name, i) ==
    IF i = 0 THEN 0 ELSE IF name[i] = "." THEN i ELSE LastDot(name, i - 1)

\* path.extname(originalname).toLowerCase(): from the last "." on, "" when
\* there is none or the name starts with it.
Extname(name) ==
    LET d == LastDot(name, Len(name))
    IN  IF d <= 1 THEN <<>> ELSE SubSeq(name, d, Len(name))

VideoExts == {"mp4", "webm", "mov", "avi", "mkv"}

\* /mp4|webm|mov|avi|mkv/.test(ext): the regex matches anywhere in ext.
IsVideo(name) == \E i \in 1..Len(Extname(name)) : Extname(name)[i] \in VideoExts

\* uploadMedia's fileFilter: /jpeg|jpg|png|gif|webp|mp4|webm|mov|avi|mkv/
\* .test(ext.slice(1)); multer drops the files it rejects.
MediaExts == {"jpeg", "jpg", "png", "gif", "webp"} \cup VideoExts
Accepted(name) == \E i \in 2..Len(Extname(name)) : Extname(name)[i] \in MediaExts

\* The MediaItem the media upload builds for one file (S3 routes).
NewMediaS3(f) ==
    [id |-> f.id, filename |-> Key("media", f.n), originalName |-> f.originalname,
     type |-> IF IsVideo(f.originalname) THEN "video" ELSE "image",
     url |-> GetS3Url(Key("media", f.n))]

\* The MediaItem the media upload builds for one file (local-disk routes).
NewMediaLocal(f) ==
    [id |-> f.id, filename |-> FileName(f.n), originalName |-> f.originalname,
     type |-> IF IsVideo(f.originalname) THEN "video" ELSE "image",
     url |-> LocalPath("media", f.n)]

\* ------------------------------------------------------------------ keys and URLs as text
\* A string as the sequence of its pieces; a piece is a run of characters
\* that none of the searches below can split.  "\n" is a line terminator.
LineFeed == "\n"

\* createS3Storage: `${folder}/${uuidv4()}${path.extname(file.originalname)}`
KeyText(folder, n, originalname) == <<folder, "/", ToString(n)>> \o Extname(originalname)

\* getS3Url: `https://${bucketName}.s3.${region}.amazonaws.com/${key}`
S3UrlText(key) ==
    <<"https://", "bucket", ".", "s3", ".", "region", ".", "amazonaws", ".", "com", "/">> \o key

\* String.prototype.includes
Includes(s, part) ==
    \E i \in 1..(Len(s) - Len(part) + 1) : SubSeq(s, i, i + Len(part) - 1) = part

\* url.match(/\.amazonaws\.com\/(.+)$/): the positions where the literal is
\* followed, up to the end of the string, by one or more characters none of
\* which is a line terminator; the match is the leftmost of them.
MatchStarts(url) ==
    {i \in 1..(Len(url) - 5) :
        /\ SubSeq(url, i, i + 4) = <<".", "amazonaws", ".", "com", "/">>
        /\ \A j \in (i + 5)..Len(url) : url[j] # LineFeed}

\* getKeyFromUrl on a string (null, undefined and '' are the empty text):
\* None for null.
KeyFromUrlText(url) ==
    IF url = <<>> THEN None
    ELSE IF Includes(url, <<".", "s3", ".">>)
            /\ Includes(url, <<".", "amazonaws", ".", "com", "/">>)
    THEN IF MatchStarts(url) = {} THEN None
         ELSE LET i == CHOOSE k \in MatchStarts(url) : \A m \in MatchStarts(url) : k <= m
              IN  Some(SubSeq(url, i + 5, Len(url)))
    ELSE IF Len(url) >= 3 /\ SubSeq(url, 1, 3) = <<"/", "uploads", "/">> THEN None
    ELSE None

\* The text of a stored reference whose upload had the extension ext.
RefText(ref, ext) ==
    CASE ref.form = "s3url" -> S3UrlText(<<ref.folder, "/", ToString(ref.n)>> \o ext)
      [] ref.form = "key" -> <<ref.folder, "/", ToString(ref.n)>> \o ext
      [] ref.form = "path" -> <<"/", "uploads", "/", ref.folder, "/", ToString(ref.n)>> \o ext
      [] ref.form = "filename" -> <<ToString(ref.n)>> \o ext
      [] OTHER -> <<>>

\* ------------------------------------------------------------------ document
\* A parsed showData.json.  kind "new": it has a `series` array; "object": a
\* JSON object without one (the legacy shape when showTitle is set);
\* "unparsable": the file is missing or JSON.parse throws.
NewShape(series) ==
    [kind |-> "new", series |-> series, showTitle |-> UNDEF,
     episodeCount |-> None, episodes |-> None]
LegacyShape(showTitle, episodeCount, episodes) ==
    [kind |-> "object", series |-> <<>>, showTitle |-> showTitle,
     episodeCount |-> episodeCount, episodes |-> episodes]
Unparsable ==
    [kind |-> "unparsable", series |-> <<>>, showTitle |-> UNDEF,
     episodeCount |-> None, episodes |-> None]

HasSeries(d) == d.kind = "new"

\* JavaScript `x || dflt` for an optional number and an optional array.
OrNumber(opt, dflt) == IF opt = None \/ opt[1] = 0 THEN dflt ELSE opt[1]
OrArray(opt, dflt) == IF opt = None THEN dflt ELSE opt[1]
\* JavaScript `x || dflt` for a string.
OrString(x, dflt) == IF x \in {UNDEF, NULL, ""} THEN dflt ELSE x

\* The series the migration of getData synthesizes from a legacy document.
MigratedSeries(parsed, id, now) ==
    [id |-> id, title |-> parsed.showTitle, description |-> "A personal documentary",
     thumbnail |-> NullRef, createdAt |-> now,
     episodeCount |-> OrNumber(parsed.episodeCount, 1),
     episodes |-> OrArray(parsed.episodes, <<>>)]

\* !parsed.series && parsed.showTitle
IsLegacy(parsed) ==
    parsed.kind = "object" /\ parsed.showTitle \notin {UNDEF, NULL, ""}

\* A getData that returns the migrated document without saving it.
GetDataForgetsSave(f, id, now) ==
    IF f.kind = "unparsable" THEN [data |-> NewShape(<<>>), saved |-> FALSE]
    ELSE IF IsLegacy(f)
    THEN [data |-> NewShape(<<MigratedSeries(f, id, now)>>), saved |-> FALSE]
    ELSE [data |-> f, saved |-> FALSE]

\* getData(): what it returns, and whether it saved the migrated document.
GetData(f, id, now) ==
    IF f.kind = "unparsable" THEN [data |-> NewShape(<<>>), saved |-> FALSE]
    ELSE IF IsLegacy(f)
    THEN [data |-> NewShape(<<MigratedSeries(f, id, now)>>), saved |-> TRUE]
    ELSE [data |-> f, saved |-> FALSE]

\* ------------------------------------------------------------------ requests
\* A request: the route (op; legacy for the routes that act on series[0]),
\* its parameters, its body, the files multer stored for it (each with the
\* uuid of its key) and the uuid and time the handler draws.
Request(op) ==
    [op |-> op, legacy |-> FALSE, sid |-> 0, idx |-> 0, title |-> UNDEF,
     description |-> UNDEF, count |-> None, eps |-> None, files |-> <<>>,
     mediaId |-> 0, mediaIds |-> None, id |-> 0, now |-> 0]

FileOps == {"seriesThumbnail", "episodeThumbnail", "media", "music"}
IndexOps == {"episodeThumbnail", "media", "music", "deleteMusic", "deleteMedia", "reorder"}
SeriesOps == IndexOps \cup {"updateSeries", "deleteSeries", "seriesThumbnail", "getSeries"}
\* The handlers that are async functions in the S3 routes; only deleteSeries
\* among them has a try.
AsyncOps == {"deleteSeries", "seriesThumbnail", "episodeThumbnail", "music",
             "deleteMusic", "deleteMedia"}

\* The folder createS3Storage / diskStorage stores a route's uploads in.
UploadFolder(op) ==
    CASE op = "seriesThumbnail" -> "series-thumbnails"
      [] op = "episodeThumbnail" -> "thumbnails"
      [] op = "media" -> "media"
      [] op = "music" -> "music"
      [] OTHER -> ""

\* The checks a handler makes before it calls getData: 400, or 0 to go on.
Precheck(r) ==
    IF r.op \in FileOps /\ r.files = <<>> THEN 400
    ELSE IF r.op = "reorder" /\ r.mediaIds = None THEN 400
    ELSE 0

\* A lookup whose legacy routes act on the last series.
TargetIndexLegacyLast(d, r) ==
    IF r.legacy THEN Len(d.series) - 1 ELSE FindIndex(d.series, r.sid)

\* data.series.findIndex(s => s.id === seriesId), or series[0] on the
\* legacy routes; -1 when there is no such series.
TargetIndex(d, r) ==
    IF r.legacy THEN (IF Len(d.series) = 0 THEN -1 ELSE 0)
    ELSE FindIndex(d.series, r.sid)

TargetSeries(d, r) == d.series[TargetIndex(d, r) + 1]
TargetEpisode(d, r) == TargetSeries(d, r).episodes[r.idx + 1]

\* What a TypeError thrown inside the handler ends in: 500 from the
\* handler's own catch or from Express for a synchronous handler; no response
\* (0) for an async handler without a try, whose promise rejects unhandled.
CrashStatus(b, r) ==
    IF b = "s3" /\ r.op \in AsyncOps /\ r.op # "deleteSeries" THEN 0 ELSE 500

\* The checks a handler makes on the loaded data: 404 or 400, -1 when it
\* throws a TypeError, 0 to go on.
Check(d, r) ==
    IF ~HasSeries(d) THEN (IF r.op = "listSeries" THEN 0 ELSE -1)
    ELSE IF r.op \notin SeriesOps THEN 0
    ELSE IF TargetIndex(d, r) = -1 THEN (IF r.legacy THEN 400 ELSE 404)
    ELSE IF r.op \notin IndexOps THEN 0
    ELSE IF r.idx >= Len(TargetSeries(d, r).episodes) THEN 400
    ELSE IF r.idx < 0 THEN -1
    ELSE IF r.op = "deleteMedia" /\ FindIndex(TargetEpisode(d, r).media, r.mediaId) = -1
    THEN 404
    ELSE 0

\* ------------------------------------------------------------------ asset deletes
MediaUrls(media) == [i \in 1..Len(media) |-> media[i].url]

\* The references deleteSeries walks for one episode, in its order.
EpisodeRefs(episode) == <<episode.thumbnail, episode.music>> \o MediaUrls(episode.media)

RECURSIVE EpisodesRefs(_)
EpisodesRefs(episodes) ==
    IF episodes = <<>> THEN <<>>
    ELSE EpisodeRefs(Head(episodes)) \o EpisodesRefs(Tail(episodes))

\* Every reference deleteSeries walks: the series thumbnail, then per episode.
SeriesRefs(series) == <<series.thumbnail>> \o EpisodesRefs(series.episodes)

\* References that include, for an update, those of the episodes its
\* episodeCount discards.
DeleteRefsOfDiscarded(d, r) ==
    CASE r.op = "updateSeries" /\ r.count # None ->
            EpisodesRefs(SubSeq(TargetSeries(d, r).episodes, r.count[1] + 1,
                                Len(TargetSeries(d, r).episodes)))
      [] r.op = "deleteSeries" -> SeriesRefs(TargetSeries(d, r))
      [] r.op = "seriesThumbnail" -> <<TargetSeries(d, r).thumbnail>>
      [] r.op = "episodeThumbnail" -> <<TargetEpisode(d, r).thumbnail>>
      [] r.op \in {"music", "deleteMusic"} -> <<TargetEpisode(d, r).music>>
      [] r.op = "deleteMedia" ->
            <<TargetEpisode(d, r).media[FindIndex(TargetEpisode(d, r).media, r.mediaId) + 1].url>>
      [] OTHER -> <<>>

\* The old references a handler of the S3 routes looks at before it mutates.
DeleteRefs(d, r) ==
    CASE r.op = "deleteSeries" -> SeriesRefs(TargetSeries(d, r))
      [] r.op = "seriesThumbnail" -> <<TargetSeries(d, r).thumbnail>>
      [] r.op = "episodeThumbnail" -> <<TargetEpisode(d, r).thumbnail>>
      [] r.op \in {"music", "deleteMusic"} -> <<TargetEpisode(d, r).music>>
      [] r.op = "deleteMedia" ->
            <<TargetEpisode(d, r).media[FindIndex(TargetEpisode(d, r).media, r.mediaId) + 1].url>>
      [] OTHER -> <<>>

\* const key = getKeyFromUrl(ref); if (key) await deleteFromS3(key)
RECURSIVE KeysOf(_)
KeysOf(refs) ==
    IF refs = <<>> THEN <<>>
    ELSE IF GetKeyFromUrl(Head(refs)) # NoKey
    THEN <<GetKeyFromUrl(Head(refs))>> \o KeysOf(Tail(refs))
    ELSE KeysOf(Tail(refs))

\* The keys a handler of the S3 routes calls deleteFromS3 with, in order.
DeleteKeys(d, r) == KeysOf(DeleteRefs(d, r))

\* The file a handler of the local-disk routes looks for with existsSync:
\* path.join(UPLOADS_DIR, folder, name).  deleteSeries looks for none.
UnlinkPaths(d, r) ==
    CASE r.op = "seriesThumbnail" /\ Truthy(TargetSeries(d, r).thumbnail) ->
            <<[folder |-> "series-thumbnails", name |-> TargetSeries(d, r).thumbnail]>>
      [] r.op = "episodeThumbnail" /\ Truthy(TargetEpisode(d, r).thumbnail) ->
            <<[folder |-> "thumbnails", name |-> TargetEpisode(d, r).thumbnail]>>
      [] r.op \in {"music", "deleteMusic"} /\ Truthy(TargetEpisode(d, r).music) ->
            <<[folder |-> "music", name |-> TargetEpisode(d, r).music]>>
      [] r.op = "deleteMedia" ->
            <<[folder |-> "media",
               name |-> TargetEpisode(d, r).media[FindIndex(TargetEpisode(d, r).media, r.mediaId) + 1].filename]>>
      [] OTHER -> <<>>

\* The stored file such a path names: only a bare file name names one.
PathKey(path) ==
    IF path.name.form = "filename" THEN Key(path.folder, path.name.n) ELSE NoKey

\* ------------------------------------------------------------------ mutations
SetSeries(d, r, series) == [d EXCEPT !.series[TargetIndex(d, r) + 1] = series]
SetEpisode(d, r, episode) ==
    [d EXCEPT !.series[TargetIndex(d, r) + 1].episodes[r.idx + 1] = episode]

\* The reference an upload handler stores for its file: getS3Url(req.file.key)
\* in the S3 routes, req.file.filename in the local-disk routes.
NewRef(b, r) ==
    IF b = "s3" THEN GetS3Url(Key(UploadFolder(r.op), r.files[1].n))
    ELSE FileName(r.files[1].n)

\* POST /series: the series it builds.
NewSeries(r) ==
    [id |-> r.id, title |-> OrString(r.title, "Untitled Series"),
     description |-> OrString(r.description, ""), thumbnail |-> NullRef,
     createdAt |-> r.now, episodeCount |-> OrNumber(r.count, 1),
     episodes |-> InitEpisodes(<<>>, 0, OrNumber(r.count, 1))]

\* An update that reconciles the stored episodes with episodeCount first and
\* replaces them with the body's episodes afterwards.
UpdatedSeriesReconcilesFirst(series, r) ==
    LET s1 == [series EXCEPT
                 !.title = IF r.title # UNDEF THEN r.title ELSE @,
                 !.description = IF r.description # UNDEF THEN r.description ELSE @]
        s2 == IF r.count # None /\ r.count[1] # s1.episodeCount
              THEN [s1 EXCEPT !.episodeCount = r.count[1],
                              !.episodes = Slice0(PadEpisodes(s1.episodes, r.count[1]), r.count[1])]
              ELSE s1
    IN  [s2 EXCEPT !.episodes = IF r.eps # None THEN r.eps[1] ELSE @]

\* An update that stores the body's description even when the body has none.
UpdatedSeriesResetsDescription(series, r) ==
    LET s1 == [series EXCEPT
                 !.title = IF r.title # UNDEF THEN r.title ELSE @,
                 !.description = r.description,
                 !.episodes = IF r.eps # None THEN r.eps[1] ELSE @]
    IN  IF r.count # None /\ r.count[1] # s1.episodeCount
        THEN [s1 EXCEPT !.episodeCount = r.count[1],
                        !.episodes = Slice0(PadEpisodes(s1.episodes, r.count[1]), r.count[1])]
        ELSE s1

\* PUT /series/:seriesId: the series after the update.
UpdatedSeries(series, r) ==
    LET s1 == [series EXCEPT
                 !.title = IF r.title # UNDEF THEN r.title ELSE @,
                 !.description = IF r.description # UNDEF THEN r.description ELSE @,
                 !.episodes = IF r.eps # None THEN r.eps[1] ELSE @]
    IN  IF r.count # None /\ r.count[1] # s1.episodeCount
        THEN [s1 EXCEPT !.episodeCount = r.count[1],
                        !.episodes = Slice0(PadEpisodes(s1.episodes, r.count[1]), r.count[1])]
        ELSE s1

\* POST /show on a document without series: the series it builds.
ShowNewSeries(r) ==
    [id |-> r.id, title |-> OrString(r.title, "The Story of My Life"),
     description |-> "", thumbnail |-> NullRef, createdAt |-> r.now,
     episodeCount |-> OrNumber(r.count, 1),
     episodes |-> PadEpisodes(OrArray(r.eps, <<>>), OrNumber(r.count, 1))]

\* POST /show on a document with series: series[0] after the save.
ShowUpdatedSeries(series, r) ==
    LET c == OrNumber(r.count, series.episodeCount)
    IN  [series EXCEPT !.title = OrString(r.title, @), !.episodeCount = c,
                       !.episodes = Slice0(PadEpisodes(OrArray(r.eps, @), c), c)]

\* The media items the media upload pushes.
NewMedia(b, r) ==
    [i \in 1..Len(r.files) |->
        IF b = "s3" THEN NewMediaS3(r.files[i]) ELSE NewMediaLocal(r.files[i])]

\* The document a handler passes to saveData.
Apply(b, d, r) ==
    CASE r.op = "createSeries" -> [d EXCEPT !.series = Append(@, NewSeries(r))]
      [] r.op = "updateSeries" -> SetSeries(d, r, UpdatedSeries(TargetSeries(d, r), r))
      [] r.op = "deleteSeries" -> [d EXCEPT !.series = Splice1(@, TargetIndex(d, r))]
      [] r.op = "seriesThumbnail" ->
            SetSeries(d, r, [TargetSeries(d, r) EXCEPT !.thumbnail = NewRef(b, r)])
      [] r.op = "episodeThumbnail" ->
            SetEpisode(d, r, [TargetEpisode(d, r) EXCEPT !.thumbnail = NewRef(b, r)])
      [] r.op = "media" ->
            SetEpisode(d, r, [TargetEpisode(d, r) EXCEPT !.media = @ \o NewMedia(b, r)])
      [] r.op = "music" ->
            SetEpisode(d, r, [TargetEpisode(d, r) EXCEPT
                                !.music = NewRef(b, r),
                                !.musicOriginalName = r.files[1].originalname])
      [] r.op = "deleteMusic" ->
            SetEpisode(d, r, [TargetEpisode(d, r) EXCEPT
                                !.music = NullRef, !.musicOriginalName = NullName])
      [] r.op = "deleteMedia" ->
            SetEpisode(d, r, [TargetEpisode(d, r) EXCEPT
                !.media = Splice1(@, FindIndex(TargetEpisode(d, r).media, r.mediaId))])
      [] r.op = "reorder" ->
            SetEpisode(d, r, [TargetEpisode(d, r) EXCEPT
                                !.media = ReorderMedia(@, r.mediaIds[1])])
      [] r.op = "show" ->
            IF Len(d.series) = 0 THEN [d EXCEPT !.series = Append(@, ShowNewSeries(r))]
            ELSE [d EXCEPT !.series[1] = ShowUpdatedSeries(@, r)]
      [] OTHER -> d

\* Whether the handler reaches saveData once its checks have passed.
Saves(d, r) ==
    IF r.op = "deleteMusic" THEN Truthy(TargetEpisode(d, r).music)
    ELSE r.op \notin {"listSeries", "getSeries", "getShow"}

\* The response: its status, the media array the reorder routes return and
\* the series array GET /series returns (None: res.json(undefined)).
Response(status, media) == [status |-> status, media |-> media, series |-> None]
Reply(b, d, r) ==
    [Response(200, IF r.op = "reorder"
                   THEN ReorderMedia(TargetEpisode(d, r).media, r.mediaIds[1])
                   ELSE <<>>)
        EXCEPT !.series = IF r.op = "listSeries" /\ HasSeries(d)
                          THEN Some(d.series) ELSE None]

\* ------------------------------------------------------------------ handlers
NoResponse == Response(0, <<>>)

\* Every other handler that is between its load and its save has now seen
\* slot p load or save the document.
MarkOthers(p) ==
    [q \in Procs |-> IF q # p /\ pc[q] = "await" THEN TRUE ELSE overlapped[q]]

\* The handler's last synchronous stretch: mutate `data`, saveData, respond.
Finish(p, d, r, fileNow) ==
    /\ file' = IF Saves(d, r) THEN Apply(backend, d, r) ELSE fileNow
    /\ saved' = [saved EXCEPT ![p] = IF Saves(d, r) THEN Some(Apply(backend, d, r)) ELSE None]
    /\ resp' = [resp EXCEPT ![p] = Reply(backend, d, r)]
    /\ pc' = [pc EXCEPT ![p] = "idle"]

\* A rejection that comes after the handler has written the document back.
RejectAfterSave(p, status, fileNow) ==
    /\ file' = fileNow
    /\ saved' = [saved EXCEPT ![p] = Some(fileNow)]
    /\ resp' = [resp EXCEPT ![p] = Response(status, <<>>)]
    /\ pc' = [pc EXCEPT ![p] = "idle"]
    /\ UNCHANGED <<assets, deleted>>
    /\ todo' = [todo EXCEPT ![p] = <<>>]
    /\ issued' = [issued EXCEPT ![p] = <<>>]

\* The handler ends at once with `status` (a failed check or a throw).
Reject(p, status, fileNow) ==
    /\ file' = fileNow
    /\ saved' = [saved EXCEPT ![p] = None]
    /\ resp' = [resp EXCEPT ![p] = Response(status, <<>>)]
    /\ pc' = [pc EXCEPT ![p] = "idle"]
    /\ UNCHANGED <<assets, deleted>>
    /\ todo' = [todo EXCEPT ![p] = <<>>]
    /\ issued' = [issued EXCEPT ![p] = <<>>]

\* Slot p takes request r0 and runs its handler to the first await, or to
\* its end.  multer has stored the request's files before the handler runs.
Handle(p, r0) ==
    /\ pc[p] = "idle"
    /\ \A q \in Procs : q < p => pc[q] # "idle"
    /\ ops < MaxOps
    /\ LET k == Len(r0.files)
           r == [r0 EXCEPT
                   !.files = [i \in 1..k |-> [r0.files[i] EXCEPT !.n = nextId + i,
                                                                 !.id = nextId + k + 1 + i]],
                   !.id = nextId + 2 * k + 2,
                   !.now = ops + 1]
           got == GetData(file, nextId + k + 1, ops + 1)
           d == got.data
           fileNow == IF got.saved THEN d ELSE file
           stored == {Key(UploadFolder(r.op), r.files[i].n) : i \in 1..k}
           status == Check(d, r)
       IN  /\ ops' = ops + 1
           /\ UNCHANGED backend
           /\ nextId' = nextId + 2 * k + 2
           /\ req' = [req EXCEPT ![p] = r]
           /\ failed' = [failed EXCEPT ![p] = <<>>]
           /\ IF Precheck(r) # 0
              THEN /\ Reject(p, Precheck(r), file)
                   /\ UNCHANGED <<loaded, overlapped>>
              ELSE /\ loaded' = [loaded EXCEPT ![p] = d]
                   /\ overlapped' = [MarkOthers(p) EXCEPT ![p] = FALSE]
                   /\ IF status # 0
                      THEN /\ file' = fileNow
                           /\ saved' = [saved EXCEPT ![p] = None]
                           /\ resp' = [resp EXCEPT ![p] =
                                Response(IF status = -1 THEN CrashStatus(backend, r)
                                         ELSE status, <<>>)]
                           /\ pc' = [pc EXCEPT ![p] = "idle"]
                           /\ assets' = assets \cup stored
                           /\ UNCHANGED deleted
                           /\ todo' = [todo EXCEPT ![p] = <<>>]
                           /\ issued' = [issued EXCEPT ![p] = <<>>]
                      ELSE IF backend = "s3"
                      THEN LET keys == DeleteKeys(d, r) IN
                           /\ assets' = assets \cup stored
                           /\ IF keys = <<>>
                              THEN /\ Finish(p, d, r, fileNow)
                                   /\ UNCHANGED deleted
                                   /\ todo' = [todo EXCEPT ![p] = <<>>]
                                   /\ issued' = [issued EXCEPT ![p] = <<>>]
                              ELSE /\ file' = fileNow
                                   /\ saved' = [saved EXCEPT ![p] = None]
                                   /\ resp' = [resp EXCEPT ![p] = NoResponse]
                                   /\ pc' = [pc EXCEPT ![p] = "await"]
                                   /\ deleted' = deleted \cup {Head(keys)}
                                   /\ issued' = [issued EXCEPT ![p] = <<Head(keys)>>]
                                   /\ todo' = [todo EXCEPT ![p] = Tail(keys)]
                      ELSE LET paths == UnlinkPaths(d, r)
                               exists == paths # <<>> /\ PathKey(paths[1]) \in assets
                           IN
                           /\ todo' = [todo EXCEPT ![p] = <<>>]
                           /\ IF ~exists
                              THEN /\ Finish(p, d, r, fileNow)
                                   /\ assets' = assets \cup stored
                                   /\ UNCHANGED deleted
                                   /\ issued' = [issued EXCEPT ![p] = <<>>]
                              ELSE /\ deleted' = deleted \cup {PathKey(paths[1])}
                                   /\ issued' = [issued EXCEPT ![p] = <<PathKey(paths[1])>>]
                                   /\ \/ /\ Finish(p, d, r, fileNow)
                                         /\ assets' = (assets \ {PathKey(paths[1])}) \cup stored
                                      \/ /\ file' = fileNow
                                         /\ saved' = [saved EXCEPT ![p] = None]
                                         /\ resp' = [resp EXCEPT ![p] = Response(500, <<>>)]
                                         /\ pc' = [pc EXCEPT ![p] = "idle"]
                                         /\ assets' = assets \cup stored

\* A handler that does not wait for its remaining deletes: once its first
\* delete has settled it saves and responds.
DeleteFromS3DoneSavingEarly(p) ==
    /\ pc[p] = "await"
    /\ \E ok \in BOOLEAN :
         LET key == issued[p][Len(issued[p])] IN
         /\ assets' = IF ok THEN assets \ {key} ELSE assets
         /\ failed' = [failed EXCEPT ![p] = IF ok THEN @ ELSE Append(@, key)]
    /\ Finish(p, loaded[p], req[p], file)
    /\ overlapped' = IF Saves(loaded[p], req[p]) THEN MarkOthers(p) ELSE overlapped
    /\ UNCHANGED <<issued, deleted, todo>>
    /\ UNCHANGED <<backend, nextId, ops, req, loaded>>

\* A handler that gives up with a 500, saving nothing, as soon as one of its
\* deletes fails.
DeleteFromS3DoneAborting(p) ==
    /\ pc[p] = "await"
    /\ \E ok \in BOOLEAN :
         LET key == issued[p][Len(issued[p])] IN
         /\ assets' = IF ok THEN assets \ {key} ELSE assets
         /\ failed' = [failed EXCEPT ![p] = IF ok THEN @ ELSE Append(@, key)]
         /\ IF ~ok
            THEN /\ Reject(p, 500, file) /\ UNCHANGED overlapped
            ELSE IF todo[p] # <<>>
            THEN /\ issued' = [issued EXCEPT ![p] = Append(@, Head(todo[p]))]
                 /\ deleted' = deleted \cup {Head(todo[p])}
                 /\ todo' = [todo EXCEPT ![p] = Tail(@)]
                 /\ UNCHANGED <<file, saved, resp, pc, overlapped>>
            ELSE /\ Finish(p, loaded[p], req[p], file)
                 /\ overlapped' = IF Saves(loaded[p], req[p]) THEN MarkOthers(p) ELSE overlapped
                 /\ UNCHANGED <<issued, deleted, todo>>
    /\ UNCHANGED <<backend, nextId, ops, req, loaded>>

\* The S3 delete a handler awaits settles: deleteFromS3 returns true (the
\* object is gone) or false (send threw), and the handler runs on to its next
\* await or to its end.
DeleteFromS3Done(p) ==
    /\ pc[p] = "await"
    /\ \E ok \in BOOLEAN :
         LET key == issued[p][Len(issued[p])] IN
         /\ assets' = IF ok THEN assets \ {key} ELSE assets
         /\ failed' = [failed EXCEPT ![p] = IF ok THEN @ ELSE Append(@, key)]
    /\ IF todo[p] # <<>>
       THEN /\ issued' = [issued EXCEPT ![p] = Append(@, Head(todo[p]))]
            /\ deleted' = deleted \cup {Head(todo[p])}
            /\ todo' = [todo EXCEPT ![p] = Tail(@)]
            /\ UNCHANGED <<file, saved, resp, pc, overlapped>>
       ELSE /\ Finish(p, loaded[p], req[p], file)
            /\ overlapped' = IF Saves(loaded[p], req[p]) THEN MarkOthers(p) ELSE overlapped
            /\ UNCHANGED <<issued, deleted, todo>>
    /\ UNCHANGED <<backend, nextId, ops, req, loaded>>

\* ------------------------------------------------------------------ inputs
\* The ids a client addresses: those of the stored series.  0 is the id of
\* no series.
SeriesIds ==
    IF HasSeries(file) THEN {file.series[i].id : i \in 1..Len(file.series)} ELSE {}
Indexes == 0..MaxCount
Counts == {None} \cup {Some(n) : n \in 0..MaxCount}

\* The files of an upload: what multer hands the handler (n and id are drawn
\* when the request is taken).
Upload(name) == [n |-> 0, id |-> 0, originalname |-> name]
ClipMp4 == <<"clip", ".", "mp4">>
PicPng == <<"pic", ".", "png">>
SongMp3 == <<"song", ".", "mp3">>
\* photo.avif: its extension holds "avi".
PhotoAvif == <<"photo", ".", "avi", "f">>

\* The requests of an episode route `op`: every stored series (by id, and
\* series[0] by the legacy route) with every index, and one for an unknown id.
EpisodeRequests(op) ==
    {[Request(op) EXCEPT !.sid = sid, !.idx = idx] : sid \in SeriesIds, idx \in Indexes}
    \cup {[Request(op) EXCEPT !.legacy = TRUE, !.idx = idx] : idx \in Indexes}
    \cup {Request(op)}

\* The episode a request addresses in the stored document, if there is one.
Addressed(r) ==
    IF HasSeries(file) /\ Check(file, [r EXCEPT !.op = "reorder"]) = 0
    THEN <<TargetEpisode(file, r)>> ELSE <<>>

MediaIdsOf(media) == [i \in 1..Len(media) |-> media[i].id]
Reverse(s) == [i \in 1..Len(s) |-> s[Len(s) + 1 - i]]
LastOf(s) == IF s = <<>> THEN <<>> ELSE <<s[Len(s)]>>

\* The episodes arrays a client sends back for a series: the stored ones
\* with the last dropped, or with one more appended.
ClientEpisodes(sid) ==
    IF sid \in SeriesIds
    THEN LET eps == file.series[FindIndex(file.series, sid) + 1].episodes
         IN  {Some(Slice0(eps, Len(eps) - 1)),
              Some(Append(eps, [NewEpisode(0) EXCEPT !.title = "Finale"]))}
    ELSE {}

\* The bodies of an update: every episodeCount with every episodes array, or
\* a title and a description alone.
UpdateBodies(op, sid) ==
    {[Request(op) EXCEPT !.sid = sid, !.count = count, !.eps = eps] :
        count \in Counts, eps \in {None} \cup ClientEpisodes(sid)}
    \cup {[Request(op) EXCEPT !.sid = sid, !.title = "B", !.description = "D"]}

\* The mediaIds lists a client sends for an episode: empty, the stored ids
\* reversed, and a list with an unknown id and a repeat.
ClientMediaIds(r) ==
    LET e == Addressed(r)
        ids == IF e = <<>> THEN <<>> ELSE MediaIdsOf(e[1].media)
    IN  {Some(<<>>), Some(Reverse(ids)), Some(<<0>> \o LastOf(ids) \o LastOf(ids))}

\* The media ids a client names: those of the episode, and one of none.
ClientMediaId(r) ==
    LET e == Addressed(r)
    IN  {0} \cup (IF e = <<>> THEN {} ELSE {e[1].media[i].id : i \in 1..Len(e[1].media)})

\* ------------------------------------------------------------------ routes
\* POST /series
PostSeries(p) ==
    \E r \in {[Request("createSeries") EXCEPT !.count = count] : count \in Counts}
             \cup {[Request("createSeries") EXCEPT !.title = "A", !.description = "D"]} :
        Handle(p, r)

\* PUT /series/:seriesId
PutSeries(p) ==
    \E sid \in SeriesIds \cup {0} : \E r \in UpdateBodies("updateSeries", sid) :
        Handle(p, r)

\* DELETE /series/:seriesId
DeleteSeries(p) ==
    \E sid \in SeriesIds \cup {0} : Handle(p, [Request("deleteSeries") EXCEPT !.sid = sid])

\* POST /series/:seriesId/upload/thumbnail
PostSeriesThumbnail(p) ==
    \/ \E sid \in SeriesIds \cup {0} :
          Handle(p, [Request("seriesThumbnail") EXCEPT !.sid = sid, !.files = <<Upload(PicPng)>>])
    \/ Handle(p, Request("seriesThumbnail"))

\* POST /series/:seriesId/upload/thumbnail/:episodeIndex and
\* POST /upload/thumbnail/:episodeIndex
PostEpisodeThumbnail(p) ==
    \/ \E r \in EpisodeRequests("episodeThumbnail") :
          Handle(p, [r EXCEPT !.files = <<Upload(PicPng)>>])
    \/ Handle(p, Request("episodeThumbnail"))

\* POST /series/:seriesId/upload/media/:episodeIndex and
\* POST /upload/media/:episodeIndex
PostMedia(p) ==
    \/ \E r \in EpisodeRequests("media") :
       \E files \in {<<Upload(ClipMp4)>>, <<Upload(PicPng), Upload(ClipMp4)>>,
                     <<Upload(PhotoAvif)>>} :
          Handle(p, [r EXCEPT !.files = SelectSeq(files, LAMBDA f : Accepted(f.originalname))])
    \/ Handle(p, Request("media"))

\* POST /series/:seriesId/upload/music/:episodeIndex and
\* POST /upload/music/:episodeIndex
PostMusic(p) ==
    \/ \E r \in EpisodeRequests("music") :
          Handle(p, [r EXCEPT !.files = <<Upload(SongMp3)>>])
    \/ Handle(p, Request("music"))

\* DELETE /series/:seriesId/music/:episodeIndex and DELETE /music/:episodeIndex
DeleteMusic(p) ==
    \E r \in EpisodeRequests("deleteMusic") : Handle(p, r)

\* DELETE /series/:seriesId/media/:episodeIndex/:mediaId and
\* DELETE /media/:episodeIndex/:mediaId
DeleteMedia(p) ==
    \E r \in EpisodeRequests("deleteMedia") : \E mediaId \in ClientMediaId(r) :
        Handle(p, [r EXCEPT !.mediaId = mediaId])

\* POST /series/:seriesId/media/:episodeIndex/reorder and
\* POST /media/:episodeIndex/reorder
PostReorder(p) ==
    \/ \E r \in EpisodeRequests("reorder") : \E mediaIds \in ClientMediaIds(r) :
          Handle(p, [r EXCEPT !.mediaIds = mediaIds])
    \/ Handle(p, Request("reorder"))

\* GET /series
GetSeriesList(p) == Handle(p, Request("listSeries"))

\* GET /series/:seriesId
GetSeries(p) ==
    \E sid \in SeriesIds \cup {0} : Handle(p, [Request("getSeries") EXCEPT !.sid = sid])

\* GET /show
GetShow(p) == Handle(p, Request("getShow"))

\* POST /show
PostShow(p) ==
    \E r \in UpdateBodies("show", IF SeriesIds = {} THEN 0 ELSE file.series[1].id) :
        Handle(p, [r EXCEPT !.sid = 0, !.title = IF @ = "B" THEN "S" ELSE @,
                            !.description = UNDEF])

\* ------------------------------------------------------------------ initial state
\* The file server.js writes when there is none.
DefaultFile == LegacyShape("The Story of My Life", Some(1), Some(<<NewEpisode(1)>>))

\* The reference the build b stored for the upload n in `folder`.
StoredRef(b, folder, n) == IF b = "s3" THEN GetS3Url(Key(folder, n)) ELSE FileName(n)
StoredMedia(b, id, n, name) ==
    IF b = "s3" THEN NewMediaS3([n |-> n, id |-> id, originalname |-> name])
    ELSE NewMediaLocal([n |-> n, id |-> id, originalname |-> name])

\* A document the build b has written: one series, created with two episodes,
\* a thumbnail, and for episode 0 a thumbnail, music and two media items.
UsedFile(b) ==
    NewShape(<<[id |-> 1, title |-> "Trip", description |-> "",
                thumbnail |-> StoredRef(b, "series-thumbnails", 4), createdAt |-> 0,
                episodeCount |-> 2,
                episodes |-> <<[title |-> EpisodeTitle(1),
                                thumbnail |-> StoredRef(b, "thumbnails", 5),
                                music |-> StoredRef(b, "music", 6),
                                musicOriginalName |-> SongMp3,
                                media |-> <<StoredMedia(b, 2, 7, ClipMp4),
                                            StoredMedia(b, 3, 8, PicPng)>>],
                               NewEpisode(2)>>]>>)
UsedAssets ==
    {Key("series-thumbnails", 4), Key("thumbnails", 5), Key("music", 6),
     Key("media", 7), Key("media", 8)}

\* The uuids UsedFile holds.
UsedIds == 8

\* No request has been taken yet; n uuids have been drawn.
NoRequestsAfter(n) ==
    /\ nextId = n
    /\ ops = 0
    /\ pc = [p \in Procs |-> "idle"]
    /\ req = [p \in Procs |-> Request("none")]
    /\ loaded = [p \in Procs |-> NewShape(<<>>)]
    /\ todo = [p \in Procs |-> <<>>]
    /\ issued = [p \in Procs |-> <<>>]
    /\ failed = [p \in Procs |-> <<>>]
    /\ saved = [p \in Procs |-> None]
    /\ resp = [p \in Procs |-> NoResponse]
    /\ overlapped = [p \in Procs |-> FALSE]
    /\ deleted = {}

NoRequests == NoRequestsAfter(UsedIds)

\* The server starts on the default file, on a document its own build wrote,
\* or (the S3 build) on a document the local-disk build wrote.
Init ==
    /\ backend \in {"s3", "local"}
    /\ \/ file = DefaultFile /\ assets = {}
       \/ file = UsedFile(backend) /\ assets = UsedAssets
       \/ backend = "s3" /\ file = UsedFile("local") /\ assets = UsedAssets
    /\ NoRequests

Next ==
    \E p \in Procs :
        \/ PostSeries(p)
        \/ PutSeries(p)
        \/ DeleteSeries(p)
        \/ PostSeriesThumbnail(p)
        \/ PostEpisodeThumbnail(p)
        \/ PostMedia(p)
        \/ PostMusic(p)
        \/ DeleteMusic(p)
        \/ DeleteMedia(p)
        \/ PostReorder(p)
        \/ PostShow(p)
        \/ GetSeriesList(p)
        \/ GetSeries(p)
        \/ GetShow(p)
        \/ DeleteFromS3Done(p)

Spec == Init /\ [][Next]_vars

\* ------------------------------------------------------------------ series deletion
\* The server under requests that create and delete series only.
NextDelete ==
    \E p \in Procs :
        \/ PostSeries(p)
        \/ DeleteSeries(p)
        \/ DeleteFromS3Done(p)

SpecDelete == Init /\ [][NextDelete]_vars

\* ------------------------------------------------------------------ series update
\* The server under requests that create and update series only.
NextUpdate ==
    \E p \in Procs :
        \/ PostSeries(p)
        \/ PutSeries(p)

SpecUpdate == Init /\ [][NextUpdate]_vars

\* ------------------------------------------------------------------ several series
\* The series POST /series appended as the n-th uuid, with `count` episodes.
CreatedSeries(n, count) ==
    NewSeries([Request("createSeries") EXCEPT !.id = n, !.count = Some(count), !.now = 0])

\* A document of three series: the one of UsedFile, then two created after it.
SeriesFile(b) ==
    NewShape(UsedFile(b).series
             \o <<CreatedSeries(UsedIds + 1, 1), CreatedSeries(UsedIds + 2, 2)>>)

InitSeries ==
    /\ backend \in {"s3", "local"}
    /\ \/ file = SeriesFile(backend)
       \/ backend = "s3" /\ file = SeriesFile("local")
    /\ assets = UsedAssets
    /\ NoRequestsAfter(UsedIds + 2)

\* The first request is one to an episode route, by series id or by the
\* legacy route.
NextLegacy ==
    \E p \in Procs :
        \/ ops = 0 /\ PostEpisodeThumbnail(p)
        \/ ops = 0 /\ PostMedia(p)
        \/ ops = 0 /\ PostMusic(p)
        \/ ops = 0 /\ DeleteMusic(p)
        \/ ops = 0 /\ DeleteMedia(p)
        \/ ops = 0 /\ PostReorder(p)
        \/ DeleteFromS3Done(p)

SpecLegacy == InitSeries /\ [][NextLegacy]_vars

\* PUT /series/:seriesId with a title and an episodeCount of 0.
PutSeriesRetitled(p) ==
    \E sid \in SeriesIds :
        Handle(p, [Request("updateSeries") EXCEPT !.sid = sid, !.title = "B",
                                                  !.count = Some(0)])

\* DELETE /media/0/:mediaId for a media item of series[0]'s first episode.
DeleteMediaOfFirst(p) ==
    \E r \in {[Request("deleteMedia") EXCEPT !.legacy = TRUE]} :
    \E mediaId \in ClientMediaId(r) \ {0} :
        Handle(p, [r EXCEPT !.mediaId = mediaId])

\* The server, holding several series, under the requests that create, update
\* and delete series, delete media, and list the series.
NextList ==
    \E p \in Procs :
        \/ PostSeries(p)
        \/ PutSeriesRetitled(p)
        \/ DeleteSeries(p)
        \/ DeleteMediaOfFirst(p)
        \/ GetSeriesList(p)
        \/ DeleteFromS3Done(p)

SpecList == InitSeries /\ [][NextList]_vars

\* ------------------------------------------------------------------ asset deletion
\* The server under the requests whose handlers delete stored assets; the
\* series thumbnail and the music are replaced by the first request only.
NextAssets ==
    \E p \in Procs :
        \/ DeleteSeries(p)
        \/ ops = 0 /\ PostSeriesThumbnail(p)
        \/ PostEpisodeThumbnail(p)
        \/ ops = 0 /\ PostMusic(p)
        \/ DeleteMusic(p)
        \/ DeleteMedia(p)
        \/ DeleteFromS3Done(p)

SpecAssets == Init /\ [][NextAssets]_vars

\* ------------------------------------------------------------------ no asset deleted
\* The server under a first request that updates a series, adds media or
\* reorders media, and requests that create series.
NextFrame ==
    \E p \in Procs :
        \/ PostSeries(p)
        \/ ops = 0 /\ PutSeries(p)
        \/ ops = 0 /\ PostMedia(p)
        \/ ops = 0 /\ PostReorder(p)

SpecFrame == Init /\ [][NextFrame]_vars

\* ------------------------------------------------------------------ upload names
\* pic.png followed by a line feed, as a multipart filename*=UTF-8''pic.png%0A
\* gives it.
PicPngLf == <<"pic", ".", "png", LineFeed>>
\* archive.tar.png and a name without extension.
TarPng == <<"archive", ".", "tar", ".", "png">>
NoExt == <<"clip">>

\* The first request is a media upload of one file under any of these names
\* (multer drops the file its filter rejects).
PostMediaNamed(p) ==
    /\ ops = 0
    /\ \E r \in EpisodeRequests("media") :
       \E name \in {ClipMp4, PicPng, PhotoAvif, PicPngLf, TarPng, NoExt} :
          Handle(p, [r EXCEPT !.files = SelectSeq(<<Upload(name)>>,
                                          LAMBDA f : Accepted(f.originalname))])

NextKeys == \E p \in Procs : PostMediaNamed(p)

SpecKeys == InitSeries /\ [][NextKeys]_vars

\* ------------------------------------------------------------------ one request
\* The server under one request to a route that addresses a series, an
\* episode or a media item.
NextOne ==
    \E p \in Procs :
        \/ ops = 0 /\ PutSeries(p)
        \/ ops = 0 /\ DeleteSeries(p)
        \/ ops = 0 /\ GetSeries(p)
        \/ ops = 0 /\ PostSeriesThumbnail(p)
        \/ ops = 0 /\ PostEpisodeThumbnail(p)
        \/ ops = 0 /\ PostMedia(p)
        \/ ops = 0 /\ PostMusic(p)
        \/ ops = 0 /\ DeleteMusic(p)
        \/ ops = 0 /\ DeleteMedia(p)
        \/ ops = 0 /\ PostReorder(p)
        \/ DeleteFromS3Done(p)

SpecOne == Init /\ [][NextOne]_vars

\* ------------------------------------------------------------------ episode indexes
\* parseInt of a parameter that is no number is NaN: NaN >= length is false
\* and episodes[NaN] is undefined, as for every negative index; it is kept
\* as an index below all others.
NotANumber == -2

\* The episodeIndex parameters a client sends: '-1', a non-number, and
\* indexes from 0 on.
AnyIndexes == {NotANumber, -1} \cup Indexes

\* A well-formed request to the episode route `op` of the series sid.
EpisodeRequest(op, sid) ==
    [Request(op) EXCEPT
        !.sid = sid,
        !.files = IF op \notin FileOps THEN <<>>
                  ELSE IF op = "music" THEN <<Upload(SongMp3)>>
                  ELSE IF op = "media" THEN <<Upload(ClipMp4)>>
                  ELSE <<Upload(PicPng)>>,
        !.mediaIds = IF op = "reorder" THEN Some(<<>>) ELSE None,
        !.mediaId = 2]

\* The first request is one to an episode route of a stored series, by id or
\* by the legacy route, with any episodeIndex parameter.
EpisodeRequestAt(p) ==
    /\ ops = 0
    /\ \E op \in IndexOps : \E sid \in SeriesIds : \E legacy \in BOOLEAN :
       \E idx \in AnyIndexes :
          Handle(p, [EpisodeRequest(op, sid) EXCEPT !.idx = idx, !.legacy = legacy])

NextIndex ==
    \E p \in Procs :
        \/ EpisodeRequestAt(p)
        \/ DeleteFromS3Done(p)

SpecIndex == InitSeries /\ [][NextIndex]_vars

\* ------------------------------------------------------------------ legacy save
\* The episodes arrays a single-series client posts: none, one episode, two.
ShowEpisodes ==
    {None, Some(<<[NewEpisode(1) EXCEPT !.title = "Pilot"]>>),
     Some(<<[NewEpisode(1) EXCEPT !.title = "Pilot"],
            [NewEpisode(2) EXCEPT !.title = "Finale"]>>)}

\* POST /show with any episodeCount and any of these arrays.
PostShowWith(p) ==
    \E count \in Counts : \E eps \in ShowEpisodes :
        Handle(p, [Request("show") EXCEPT !.title = "S", !.count = count, !.eps = eps])

\* The server starts on a document without series or on one of three.
InitShow ==
    /\ backend \in {"s3", "local"}
    /\ \/ file = NewShape(<<>>) /\ assets = {}
       \/ file = SeriesFile(backend) /\ assets = UsedAssets
    /\ NoRequestsAfter(UsedIds + 2)

NextShow == \E p \in Procs : PostShowWith(p)

SpecShow == InitShow /\ [][NextShow]_vars

\* ------------------------------------------------------------------ reordering
\* The sequences of at most n elements of S, none of them twice.
DistinctSeqs(S, n) ==
    {s \in UNION {[1..k -> S] : k \in 0..n} :
        \A i, j \in DOMAIN s : i # j => s[i] # s[j]}

\* A document of one series with one episode whose media have the ids `ids`
\* (media ids are uuids: no two items of an episode share one).
ReorderFile(b, ids) ==
    NewShape(<<[id |-> 1, title |-> "Trip", description |-> "", thumbnail |-> NullRef,
                createdAt |-> 0, episodeCount |-> 1,
                episodes |-> <<[NewEpisode(1) EXCEPT
                    !.media = [i \in 1..Len(ids) |->
                                  StoredMedia(b, ids[i], ids[i], ClipMp4)]]>>]>>)

InitReorder ==
    /\ backend \in {"s3", "local"}
    /\ \E ids \in DistinctSeqs(1..MaxMedia, MaxMedia) :
          /\ file = ReorderFile(backend, ids)
          /\ assets = {Key("media", ids[i]) : i \in 1..Len(ids)}
    /\ NoRequests

\* Every mediaIds list of at most MaxIdsLen ids: ids of the episode's media
\* and the id 0 of none, in any order, with repeats.
AnyMediaIds == UNION {[1..k -> 0..MaxMedia] : k \in 0..MaxIdsLen}

\* The first request is a reorder of episode 0, by series id or by the
\* legacy route, or of an unknown series, with any mediaIds.
PostReorderAny(p) ==
    /\ ops = 0
    /\ \E r \in {q \in EpisodeRequests("reorder") : q.idx = 0} :
       \E mediaIds \in AnyMediaIds :
          Handle(p, [r EXCEPT !.mediaIds = Some(mediaIds)])

NextReorder == \E p \in Procs : PostReorderAny(p)

SpecReorder == InitReorder /\ [][NextReorder]_vars

\* ------------------------------------------------------------------ loading
\* The contents showData.json can have when the build b reads it: missing or
\* not JSON (or the JSON null, whose property read throws inside the try), a
\* legacy object with all its fields, with a title alone or with no episodes,
\* the default
\* file, a parsable value with neither series nor showTitle ({} or a number),
\* a legacy object with an empty title, and documents of the new shape.
LoadFiles(b) ==
    {Unparsable,
     LegacyShape("X", Some(2), Some(<<NewEpisode(1), NewEpisode(2)>>)),
     LegacyShape("X", None, None),
     LegacyShape("X", Some(0), Some(<<>>)),
     DefaultFile,
     LegacyShape(UNDEF, None, None),
     LegacyShape("", Some(1), Some(<<NewEpisode(1)>>)),
     NewShape(<<>>),
     UsedFile(b)}

InitLoad ==
    /\ backend \in {"s3", "local"}
    /\ file \in LoadFiles(backend)
    /\ assets = IF file = UsedFile(backend) THEN UsedAssets ELSE {}
    /\ NoRequests

\* The server under the requests that only read the document.
NextLoad ==
    \E p \in Procs :
        \/ GetSeriesList(p)
        \/ GetSeries(p)
        \/ GetShow(p)

SpecLoad == InitLoad /\ [][NextLoad]_vars

\* ------------------------------------------------------------------ properties
\* Slot p's last request was `op` and its handler has answered 200.
Completed(p, op) == pc[p] = "idle" /\ req[p].op = op /\ resp[p].status = 200

Min(a, b) == IF a < b THEN a ELSE b

\* C1: in every persisted document every series has as many episodes as its
\* episodeCount says.
C1_EpisodesMatchCount ==
    HasSeries(file) =>
        \A i \in 1..Len(file.series) :
            Len(file.series[i].episodes) = file.series[i].episodeCount

\* C2: a deleteSeries that succeeds saves a document without the series and
\* has issued exactly one asset-delete call for each reference set in the
\* series, in the order deleteSeries walks them, whatever the reference's form.
C2_DeleteSeriesDeletesEveryAsset ==
    \A p \in Procs :
        Completed(p, "deleteSeries") =>
            LET refs == SelectSeq(SeriesRefs(TargetSeries(loaded[p], req[p])), Truthy)
            IN  /\ saved[p] # None
                /\ FindIndex(saved[p][1].series, req[p].sid) = -1
                /\ Len(issued[p]) = Len(refs)
                /\ \A i \in 1..Len(refs) : issued[p][i].n = refs[i].n

\* C3: no handler loads or saves the document between another handler's load
\* and that handler's save.
C3_NoInterleaving == \A p \in Procs : ~overlapped[p]

\* C4: an updateSeries that gives episodeCount n alone leaves the series with
\* n episodes: the first min(n, old length) unchanged, the added ones empty
\* and titled 'Episode k', k from old length + 1 to n.
C4_UpdateEpisodeCount ==
    \A p \in Procs :
        (/\ Completed(p, "updateSeries")
         /\ req[p].count # None /\ req[p].eps = None /\ req[p].title = UNDEF) =>
            LET old == TargetSeries(loaded[p], req[p]).episodes
                n == req[p].count[1]
                new == TargetSeries(saved[p][1], req[p]).episodes
            IN  /\ Len(new) = n
                /\ \A i \in 1..Min(n, Len(old)) : new[i] = old[i]
                /\ \A k \in (Len(old) + 1)..n : new[k] = NewEpisode(k)

\* C5: a createSeries with episodeCount c (1 when omitted) appends a series
\* with episodeCount c and c empty episodes titled 'Episode 1' .. 'Episode c',
\* and leaves the series before it unchanged.
C5_CreateSeries ==
    \A p \in Procs :
        Completed(p, "createSeries") =>
            LET c == IF req[p].count = None THEN 1 ELSE req[p].count[1]
                series == saved[p][1].series
                new == series[Len(series)]
            IN  /\ Len(series) = Len(loaded[p].series) + 1
                /\ SubSeq(series, 1, Len(series) - 1) = loaded[p].series
                /\ new.episodeCount = c
                /\ Len(new.episodes) = c
                /\ \A i \in 1..Len(new.episodes) :
                      /\ new.episodes[i].title = EpisodeTitle(i)
                      /\ new.episodes[i].thumbnail = NullRef
                      /\ new.episodes[i].media = <<>>

\* Slot p's last request passed every check of its handler (its target
\* exists and its input is well formed) and the handler has ended.
Ended(p, op) ==
    /\ pc[p] = "idle" /\ req[p].op = op
    /\ Precheck(req[p]) = 0 /\ Check(loaded[p], req[p]) = 0

\* The reference a replace operation's target holds in document d.
TargetRef(d, r) ==
    CASE r.op = "seriesThumbnail" -> TargetSeries(d, r).thumbnail
      [] r.op = "episodeThumbnail" -> TargetEpisode(d, r).thumbnail
      [] r.op = "music" -> TargetEpisode(d, r).music

\* C6: a thumbnail or music upload that found its target has saved a document
\* in which the target holds the new reference, whatever became of the delete
\* of the old asset, and it tried a delete only if an old reference was set.
C6_ReplaceAlwaysWrites ==
    \A p \in Procs : \A op \in {"seriesThumbnail", "episodeThumbnail", "music"} :
        Ended(p, op) =>
            /\ saved[p] # None
            /\ TargetRef(saved[p][1], req[p]) = NewRef(backend, req[p])
            /\ issued[p] # <<>> => Truthy(TargetRef(loaded[p], req[p]))

\* C7: a deleteSeries that found its series has answered 200, has called
\* deleteFromS3 for every key of the series and has saved a document without
\* the series, however many of those deletes failed.  (The local-disk routes
\* delete no file on this route, so none of theirs can fail.)
C7_FailedDeletesDoNotAbort ==
    \A p \in Procs :
        Ended(p, "deleteSeries") =>
            /\ resp[p].status = 200
            /\ issued[p] = IF backend = "s3" THEN DeleteKeys(loaded[p], req[p]) ELSE <<>>
            /\ \A i \in 1..Len(failed[p]) : \E j \in 1..Len(issued[p]) : failed[p][i] = issued[p][j]
            /\ saved[p] # None
            /\ FindIndex(saved[p][1].series, req[p].sid) = -1
            /\ Len(saved[p][1].series) = Len(loaded[p].series) - 1

\* A deleteSeries has ended whose first delete failed, as did a later one, and
\* all five keys of the series were tried.
C7_Witness ==
    \E p \in Procs :
        /\ Ended(p, "deleteSeries")
        /\ Len(issued[p]) = 5
        /\ Len(failed[p]) >= 2
        /\ failed[p][1] = issued[p][1]
        /\ FindIndex(file.series, req[p].sid) = -1

\* The media of the episode a reorder addressed: as loaded, and as saved.
OldMedia(p) == TargetEpisode(loaded[p], req[p]).media
NewMediaOrder(p) == TargetEpisode(saved[p][1], req[p]).media
Count(s, x) == Cardinality({i \in DOMAIN s : s[i] = x})
Range(s) == {s[i] : i \in DOMAIN s}

\* C8: a reorder saves and returns a rearrangement of the episode's media:
\* the same length, every item as often as before, whatever mediaIds holds
\* (part of the ids, unknown ids, repeats, none).
C8_ReorderIsRearrangement ==
    \A p \in Procs :
        Completed(p, "reorder") =>
            /\ Len(NewMediaOrder(p)) = Len(OldMedia(p))
            /\ \A i \in 1..Len(OldMedia(p)) :
                  Count(NewMediaOrder(p), OldMedia(p)[i]) = Count(OldMedia(p), OldMedia(p)[i])
            /\ resp[p].media = NewMediaOrder(p)

\* A reorder of three items has ended whose mediaIds named one of them twice
\* and an unknown id, and not the other two.
C8_Witness ==
    \E p \in Procs :
        /\ Completed(p, "reorder")
        /\ MediaIdsOf(OldMedia(p)) = <<1, 2, 3>>
        /\ req[p].mediaIds = Some(<<3, 0, 3>>)
        /\ MediaIdsOf(NewMediaOrder(p)) = <<3, 1, 2>>

\* C9: when mediaIds is a permutation of the episode's media ids, the ids of
\* the saved media and of the returned media are mediaIds.
C9_PermutationIsApplied ==
    \A p \in Procs :
        (/\ Completed(p, "reorder")
         /\ Len(req[p].mediaIds[1]) = Len(OldMedia(p))
         /\ Range(req[p].mediaIds[1]) = Range(MediaIdsOf(OldMedia(p)))) =>
            /\ MediaIdsOf(NewMediaOrder(p)) = req[p].mediaIds[1]
            /\ MediaIdsOf(resp[p].media) = req[p].mediaIds[1]

\* A reorder of three items by a permutation that moves all three has ended.
C9_Witness ==
    \E p \in Procs :
        /\ Completed(p, "reorder")
        /\ MediaIdsOf(OldMedia(p)) = <<1, 2, 3>>
        /\ req[p].mediaIds = Some(<<3, 1, 2>>)
        /\ MediaIdsOf(file.series[1].episodes[1].media) = <<3, 1, 2>>

\* The positions of ids that name an item of media for the first time.
NamingPositions(media, ids) ==
    SelectSeq([i \in 1..Len(ids) |-> i],
              LAMBDA i : /\ ids[i] \in Range(MediaIdsOf(media))
                         /\ \A j \in 1..(i - 1) : ids[j] # ids[i])
ItemOf(media, id) == media[CHOOSE i \in 1..Len(media) : media[i].id = id]

\* C10: the saved media are the items mediaIds names, in the order it names
\* them (unknown ids skipped, an id counted once), then the items it does not
\* name, in their old order.
C10_NamedThenRest ==
    \A p \in Procs :
        Completed(p, "reorder") =>
            LET ids == req[p].mediaIds[1]
                pos == NamingPositions(OldMedia(p), ids)
                named == [k \in 1..Len(pos) |-> ItemOf(OldMedia(p), ids[pos[k]])]
                rest == SelectSeq(OldMedia(p), LAMBDA m : m.id \notin Range(ids))
            IN  NewMediaOrder(p) = named \o rest

\* A reorder of three items has ended whose mediaIds named an unknown id and
\* the second item: that item came first, the others kept their order.
C10_Witness ==
    \E p \in Procs :
        /\ Completed(p, "reorder")
        /\ MediaIdsOf(OldMedia(p)) = <<1, 2, 3>>
        /\ req[p].mediaIds = Some(<<0, 2>>)
        /\ MediaIdsOf(NewMediaOrder(p)) = <<2, 1, 3>>

\* Slot p takes a request in this step and its handler calls getData.
LoadsNow(p) == ops' = ops + 1 /\ req'[p].now = ops' /\ Precheck(req'[p]) = 0

\* C11: a load of a legacy document {showTitle: X, ...} returns a document of
\* exactly one series titled X and leaves that document persisted; a load of
\* a document of the new shape returns it as it is and leaves it persisted,
\* so every later load returns the same series, id and createdAt included.
C11_MigrationIdempotent ==
    [][\A p \in Procs :
          LoadsNow(p) =>
              /\ IsLegacy(file) =>
                    /\ HasSeries(loaded'[p])
                    /\ Len(loaded'[p].series) = 1
                    /\ loaded'[p].series[1].title = file.showTitle
                    /\ file' = loaded'[p]
              /\ HasSeries(file) => loaded'[p] = file /\ file' = file]_vars

\* Two loads have run on the legacy document titled X: the second returned
\* the one series the first had made, with the first load's id and createdAt.
C11_Witness ==
    \E p \in Procs :
        /\ ops = 2 /\ req[p].now = 2 /\ pc[p] = "idle"
        /\ loaded[p] = file
        /\ HasSeries(file) /\ Len(file.series) = 1
        /\ file.series[1].title = "X"
        /\ file.series[1].createdAt = 1
        /\ file.series[1].id = UsedIds + 1
        /\ Len(file.series[1].episodes) = 2

\* C12: whatever the file holds, the document getData returned to a handler
\* has a series array.
C12_LoadReturnsSeries ==
    \A p \in Procs :
        (req[p].op # "none" /\ Precheck(req[p]) = 0) => HasSeries(loaded[p])

\* Slot p's last request named a series and an episode index that exist in
\* the document its handler loaded, and the handler has ended.
Addressing(p, op) ==
    /\ pc[p] = "idle" /\ req[p].op = op /\ Precheck(req[p]) = 0
    /\ Check(loaded[p], [req[p] EXCEPT !.op = "reorder"]) = 0

\* The document d with the media of request r's episode replaced.
WithMedia(d, r, media) ==
    [d EXCEPT !.series[TargetIndex(d, r) + 1].episodes[r.idx + 1].media = media]

\* C13: a deleteMedia on an episode that holds mediaId saves the loaded
\* document less the one item of that id, everything else as it was; on an
\* episode that does not hold it, it answers 404 and saves nothing.
C13_DeleteMediaRemovesOne ==
    \A p \in Procs :
        Addressing(p, "deleteMedia") =>
            LET old == TargetEpisode(loaded[p], req[p]).media
                rest == SelectSeq(old, LAMBDA m : m.id # req[p].mediaId)
            IN  IF \E i \in 1..Len(old) : old[i].id = req[p].mediaId
                THEN /\ saved[p] = Some(WithMedia(loaded[p], req[p], rest))
                     /\ Len(rest) = Len(old) - 1
                ELSE resp[p].status = 404 /\ saved[p] = None

\* The extension of an upload is one of the video extensions.
HasVideoExt(name) == \E e \in VideoExts : Extname(name) = <<".", e>>

\* C14: a media upload saves the loaded document with one item per file
\* appended to the episode's media, in the order of the files, the items
\* before them as they were; an item is a 'video' exactly when its file's
\* extension is mp4, webm, mov, avi or mkv, and an 'image' otherwise.
C14_AddMediaAppends ==
    \A p \in Procs :
        Completed(p, "media") =>
            LET old == TargetEpisode(loaded[p], req[p]).media
                new == TargetEpisode(saved[p][1], req[p]).media
                files == req[p].files
            IN  /\ Len(new) = Len(old) + Len(files)
                /\ saved[p][1] = WithMedia(loaded[p], req[p], new)
                /\ SubSeq(new, 1, Len(old)) = old
                /\ \A i \in 1..Len(files) :
                      /\ new[Len(old) + i].originalName = files[i].originalname
                      /\ new[Len(old) + i].id = files[i].id
                      /\ new[Len(old) + i].type =
                            IF HasVideoExt(files[i].originalname) THEN "video" ELSE "image"

\* C15: a deleteEpisodeMusic on an episode with music has issued the delete
\* of the asset and saved the loaded document with music and
\* musicOriginalName null; on an episode without music it answers 200, issues
\* no delete and saves nothing.
C15_DeleteMusic ==
    \A p \in Procs :
        Addressing(p, "deleteMusic") =>
            LET e == TargetEpisode(loaded[p], req[p])
            IN  IF Truthy(e.music)
                THEN /\ Len(issued[p]) = 1 /\ issued[p][1].n = e.music.n
                     /\ saved[p] = Some(SetEpisode(loaded[p], req[p],
                            [e EXCEPT !.music = NullRef, !.musicOriginalName = NullName]))
                ELSE /\ resp[p].status = 200
                     /\ issued[p] = <<>>
                     /\ saved[p] = None

\* Slot p's last request named a series that exists in the document its
\* handler loaded and an episode index past the end of that series' episodes.
IndexTooLarge(p) ==
    /\ pc[p] = "idle" /\ req[p].op \in IndexOps /\ Precheck(req[p]) = 0
    /\ HasSeries(loaded[p]) /\ TargetIndex(loaded[p], req[p]) # -1
    /\ req[p].idx >= Len(TargetSeries(loaded[p], req[p]).episodes)

\* C16: an episode operation with an index past the last episode answers 400,
\* saves nothing, deletes no asset and leaves no new asset in the store.
C16_InvalidIndexChangesNothing ==
    \A p \in Procs :
        IndexTooLarge(p) =>
            /\ resp[p].status = 400
            /\ saved[p] = None
            /\ issued[p] = <<>>
            /\ \A i \in 1..Len(req[p].files) :
                  Key(UploadFolder(req[p].op), req[p].files[i].n) \notin assets

\* C17: an operation answers 404 when the series it names is not in the
\* loaded document (on the legacy routes: when the document has no series),
\* and when the episode it names holds no media item of the id it names.
C17_AbsentTargetIs404 ==
    \A p \in Procs :
        (/\ pc[p] = "idle" /\ req[p].op \in SeriesOps /\ Precheck(req[p]) = 0
         /\ HasSeries(loaded[p])) =>
            /\ TargetIndex(loaded[p], req[p]) = -1 => resp[p].status = 404
            /\ (/\ Addressing(p, "deleteMedia")
                /\ FindIndex(TargetEpisode(loaded[p], req[p]).media, req[p].mediaId) = -1)
                  => resp[p].status = 404

\* The series other than the request's target are the same in d and e.
OthersUnchanged(d, e, r) ==
    /\ Len(e.series) = Len(d.series)
    /\ \A i \in 1..Len(d.series) :
           i # TargetIndex(d, r) + 1 => e.series[i] = d.series[i]

\* C18 as stated: an updateSeries leaves every attribute the body omits as it
\* was (title, description, episodes, episodeCount), never changes id,
\* createdAt or thumbnail, and leaves every other series unchanged.
C18_OmittedFieldsKept ==
    \A p \in Procs :
        Completed(p, "updateSeries") =>
            LET old == TargetSeries(loaded[p], req[p])
                new == TargetSeries(saved[p][1], req[p])
            IN  /\ req[p].title = UNDEF => new.title = old.title
                /\ req[p].description = UNDEF => new.description = old.description
                /\ req[p].eps = None => new.episodes = old.episodes
                /\ req[p].count = None => new.episodeCount = old.episodeCount
                /\ new.id = old.id /\ new.createdAt = old.createdAt
                /\ new.thumbnail = old.thumbnail
                /\ OthersUnchanged(loaded[p], saved[p][1], req[p])

\* C18, amended: as above, but omitted episodes keep their value only when
\* the body gives no episodeCount or the stored one; with a different
\* episodeCount n the omitted episodes become the first n of the old ones,
\* followed by new ones when n exceeds the old length.
C18_OmittedFieldsKeptUnlessReconciled ==
    \A p \in Procs :
        Completed(p, "updateSeries") =>
            LET old == TargetSeries(loaded[p], req[p])
                new == TargetSeries(saved[p][1], req[p])
                same == req[p].count = None \/ req[p].count[1] = old.episodeCount
            IN  /\ req[p].title = UNDEF => new.title = old.title
                /\ req[p].description = UNDEF => new.description = old.description
                /\ req[p].eps = None /\ same => new.episodes = old.episodes
                /\ req[p].eps = None /\ ~same =>
                      /\ Len(new.episodes) = req[p].count[1]
                      /\ \A i \in 1..Min(Len(old.episodes), req[p].count[1]) :
                             new.episodes[i] = old.episodes[i]
                /\ req[p].count = None => new.episodeCount = old.episodeCount
                /\ new.id = old.id /\ new.createdAt = old.createdAt
                /\ new.thumbnail = old.thumbnail
                /\ OthersUnchanged(loaded[p], saved[p][1], req[p])

\* An update giving episodeCount 1 alone to the second of two series, the
\* first holding a thumbnail and media: title, description and thumbnail
\* stay, the episodes are cut to the first one, the first series is untouched.
C18_Witness ==
    \E p \in Procs :
        /\ Completed(p, "updateSeries")
        /\ req[p].count = Some(1) /\ req[p].eps = None
        /\ req[p].title = UNDEF /\ req[p].description = UNDEF
        /\ Len(loaded[p].series) = 2 /\ TargetIndex(loaded[p], req[p]) = 1
        /\ loaded[p].series[1] = UsedFile(backend).series[1]
        /\ loaded[p].series[2].title = "A" /\ loaded[p].series[2].description = "D"
        /\ saved[p] # None /\ file = saved[p][1]
        /\ file.series[1] = loaded[p].series[1]
        /\ file.series[2].title = "A" /\ file.series[2].description = "D"
        /\ file.series[2].episodeCount = 1

\* The series-scoped request that names series[0] of d in place of the
\* legacy request r.
Scoped(d, r) == [r EXCEPT !.legacy = FALSE, !.sid = d.series[1].id]

\* C19: on a document with at least one series, a legacy episode-level
\* request ends as the series-scoped request with the id of series[0] does on
\* the same document: the same 200, 400 or 404 (or the same failure of a
\* local unlink), the same saved document, the same response body, the same
\* asset deletions; every series after series[0] is saved as it was loaded.
C19_LegacyIsScopedOnFirst ==
    \A p \in Procs :
        (/\ pc[p] = "idle" /\ req[p].legacy /\ Precheck(req[p]) = 0
         /\ HasSeries(loaded[p]) /\ Len(loaded[p].series) >= 1) =>
            LET d == loaded[p]
                sc == Scoped(d, req[p])
                ok == Check(d, sc) = 0
            IN  /\ Check(d, req[p]) = Check(d, sc)
                /\ ~ok => resp[p].status = Check(d, sc) /\ saved[p] = None
                /\ ~ok => issued[p] = <<>>
                /\ ok => \/ resp[p] = Reply(backend, d, sc)
                         \/ /\ backend = "local" /\ UnlinkPaths(d, sc) # <<>>
                            /\ resp[p].status = 500 /\ saved[p] = None
                /\ ok /\ resp[p].status = 200 =>
                      saved[p] = IF Saves(d, sc) THEN Some(Apply(backend, d, sc)) ELSE None
                /\ ok /\ backend = "s3" => issued[p] = DeleteKeys(d, sc)
                /\ ok /\ backend = "local" =>
                      issued[p] \in {<<>>} \cup {<<PathKey(q)>> : q \in Range(UnlinkPaths(d, sc))}
                /\ saved[p] # None =>
                      /\ Len(saved[p][1].series) = Len(d.series)
                      /\ \A i \in 2..Len(d.series) : saved[p][1].series[i] = d.series[i]

\* The legacy DELETE /media/0/2 on the three-series document of the S3
\* build: the media item 2 of series[0] is gone, its object deleted, and the
\* two other series are as they were.
C19_Witness ==
    \E p \in Procs :
        /\ Completed(p, "deleteMedia") /\ req[p].legacy
        /\ req[p].idx = 0 /\ req[p].mediaId = 2
        /\ backend = "s3" /\ loaded[p] = SeriesFile("s3")
        /\ issued[p] = <<Key("media", 7)>>
        /\ saved[p] # None /\ file = saved[p][1]
        /\ MediaIdsOf(file.series[1].episodes[1].media) = <<3>>
        /\ file.series[2] = loaded[p].series[2]
        /\ file.series[3] = loaded[p].series[3]

\* The series of s are in the order of their creation: uuids in the order
\* they were drawn, createdAt never decreasing.
InCreationOrder(s) ==
    \A i, j \in 1..Len(s) :
        i < j => s[i].id < s[j].id /\ s[i].createdAt <= s[j].createdAt

\* C20: listSeries answers with the stored series as they are, and they are
\* in the order in which they were created, whatever requests came before.
C20_ListInInsertionOrder ==
    \A p \in Procs :
        Completed(p, "listSeries") /\ HasSeries(loaded[p]) =>
            /\ resp[p].series = Some(loaded[p].series)
            /\ InCreationOrder(resp[p].series[1])

\* The second of three series was deleted; listSeries then answers with the
\* first and the third, in that order.
C20_Witness ==
    \E p \in Procs :
        /\ Completed(p, "listSeries") /\ ops = 2
        /\ resp[p].series = Some(<<UsedFile(backend).series[1],
                                     CreatedSeries(UsedIds + 2, 2)>>)

\* C21: an updateSeries that gives both episodes and an episodeCount n that
\* differs from the stored one saves n episodes: the first min(n, length of
\* the given array) are the given ones, and the ones after the given array's
\* end are empty and titled 'Episode k', k from the given length + 1 to n.
C21_ReconcileAfterReplace ==
    \A p \in Procs :
        (/\ Completed(p, "updateSeries")
         /\ req[p].eps # None /\ req[p].count # None
         /\ req[p].count[1] # TargetSeries(loaded[p], req[p]).episodeCount) =>
            LET given == req[p].eps[1]
                n == req[p].count[1]
                new == TargetSeries(saved[p][1], req[p])
            IN  /\ new.episodeCount = n
                /\ Len(new.episodes) = n
                /\ \A i \in 1..Min(n, Len(given)) : new.episodes[i] = given[i]
                /\ \A k \in (Len(given) + 1)..n : new.episodes[k] = NewEpisode(k)

\* A series stored with no episode is sent the array <<'Finale'>> and
\* episodeCount 2, and is saved as <<'Finale', 'Episode 2'>>.
C21_Witness ==
    \E p \in Procs :
        /\ Completed(p, "updateSeries")
        /\ TargetSeries(loaded[p], req[p]).episodes = <<>>
        /\ req[p].eps = Some(<<[NewEpisode(0) EXCEPT !.title = "Finale"]>>)
        /\ req[p].count = Some(2)
        /\ saved[p] # None /\ file = saved[p][1]
        /\ TargetSeries(file, req[p]).episodes =
              <<[NewEpisode(0) EXCEPT !.title = "Finale"], NewEpisode(2)>>

\* The asset-delete call for `key` that slot p issued has completed: the
\* object is gone, or the call is recorded as failed.
Settled(p, key) == key \notin assets \/ key \in Range(failed[p])

\* C22: a handler that has saved has no asset delete outstanding or still to
\* issue: every delete it makes (every key of the S3 routes, the unlinked
\* file of the local-disk routes) was issued and had completed; and a
\* handler that waits for a delete has not saved yet.
C22_DeletesCompleteBeforeSave ==
    \A p \in Procs :
        /\ pc[p] = "await" => saved[p] = None /\ resp[p] = NoResponse
        /\ saved[p] # None =>
              /\ pc[p] = "idle" /\ todo[p] = <<>>
              /\ backend = "s3" => issued[p] = DeleteKeys(loaded[p], req[p])
              /\ \A key \in Range(issued[p]) : Settled(p, key)

\* A deleteSeries of the S3 routes has saved after its five deletes, of which
\* the second failed.
C22_Witness ==
    \E p \in Procs :
        /\ Completed(p, "deleteSeries") /\ backend = "s3"
        /\ saved[p] # None /\ Len(issued[p]) = 5
        /\ failed[p] = <<issued[p][2]>>
        /\ \A i \in {1, 3, 4, 5} : issued[p][i] \notin assets

\* C23: a deleteMedia or deleteEpisodeMusic that issued an asset deletion
\* responds 200 and has saved the document without the media item
\* (respectively with music and musicOriginalName null), whether the
\* deletion succeeded or failed.
C23_FailedDeletionNotSurfaced ==
    \A p \in Procs : \A op \in {"deleteMedia", "deleteMusic"} :
        Ended(p, op) /\ issued[p] # <<>> =>
            /\ resp[p].status = 200
            /\ saved[p] = Some(Apply(backend, loaded[p], req[p]))

\* Slot p takes a request in this step.
TakesNow(p) == ops' = ops + 1 /\ req'[p].now = ops'

FrameOps == {"createSeries", "updateSeries", "media", "reorder"}

\* C24 as stated: the step in which a createSeries, updateSeries, addMedia or
\* reorderMedia is handled issues no asset delete and leaves the set of
\* stored assets as it was.
C24_AssetsUnchanged ==
    [][\A p \in Procs :
          TakesNow(p) /\ req'[p].op \in FrameOps =>
              /\ issued'[p] = <<>> /\ deleted' = deleted
              /\ assets' = assets]_vars

\* C24, amended: such a step issues no asset delete, ends the handler, and
\* leaves every stored asset stored; the only change to the set of stored
\* assets is that the files uploaded with an addMedia request are added.
C24_NoAssetDeleted ==
    [][\A p \in Procs :
          TakesNow(p) /\ req'[p].op \in FrameOps =>
              /\ issued'[p] = <<>> /\ deleted' = deleted
              /\ pc'[p] = "idle"
              /\ assets' = assets \cup {Key("media", req'[p].files[i].n) :
                                           i \in 1..Len(req'[p].files)}]_vars

\* An update has cut the series of UsedFile, whose first episode holds a
\* thumbnail, music and two media, to no episode: every asset is still stored
\* and no delete was issued.
C24_Witness ==
    \E p \in Procs :
        /\ Completed(p, "updateSeries") /\ req[p].count = Some(0)
        /\ loaded[p] = UsedFile(backend)
        /\ saved[p] # None /\ file = saved[p][1]
        /\ file.series[1].episodes = <<>>
        /\ assets = UsedAssets /\ deleted = {} /\ issued[p] = <<>>

\* C25: the key recovered from the URL written for an upload is the key the
\* file was stored under, for every file the S3 routes stored; and every
\* stored reference that is not an S3 URL (null, a bare file name, a local
\* path) gives null.
C25_KeyRoundTrip ==
    /\ \A p \in Procs :
          backend = "s3" /\ req[p].op \in FileOps =>
              \A i \in 1..Len(req[p].files) :
                  LET k == KeyText(UploadFolder(req[p].op), req[p].files[i].n,
                                   req[p].files[i].originalname)
                  IN  KeyFromUrlText(S3UrlText(k)) = Some(k)
    /\ HasSeries(file) =>
          \A s \in Range(file.series) : \A ref \in Range(SeriesRefs(s)) :
              ref.form # "s3url" => KeyFromUrlText(RefText(ref, <<".", "png">>)) = None

\* The stored asset a reference held in the field of `folder` names, in
\* either build's form of reference.
AssetOf(ref, folder) == IF Truthy(ref) THEN Key(folder, ref.n) ELSE NoKey

\* The assets the series s refers to.
SeriesAssets(s) ==
    {AssetOf(s.thumbnail, "series-thumbnails")}
    \cup UNION {{AssetOf(s.episodes[i].thumbnail, "thumbnails"),
                 AssetOf(s.episodes[i].music, "music")}
                \cup {AssetOf(s.episodes[i].media[j].url, "media") :
                         j \in 1..Len(s.episodes[i].media)} :
                i \in 1..Len(s.episodes)}

\* C26: no reference of the persisted document names an asset for which a
\* delete has been issued.
C26_NoDanglingReference ==
    HasSeries(file) =>
        \A s \in Range(file.series) : SeriesAssets(s) \cap deleted = {}

\* C27: a handler that saves after waiting for an asset delete overwrites the
\* document it loaded and no other: nothing another operation saved while it
\* waited is replaced by its save.
C27_NoLostUpdate ==
    [][\A p \in Procs :
          pc[p] = "await" /\ pc'[p] = "idle" /\ saved'[p] # None =>
              file = loaded[p]]_vars

\* C28: the step in which a request is answered 400 or 404 saves nothing
\* and issues no asset delete: the persisted document is the one before the
\* step, or its migration when the load found the legacy shape, and every
\* asset stored before the step is stored after it.
C28_FailureChangesNothing ==
    [][\A p \in Procs :
          TakesNow(p) /\ resp'[p].status \in {400, 404} =>
              /\ pc'[p] = "idle" /\ saved'[p] = None
              /\ issued'[p] = <<>> /\ todo'[p] = <<>> /\ deleted' = deleted
              /\ assets \subseteq assets'
              /\ \/ file' = file
                 \/ /\ IsLegacy(file) /\ Precheck(req'[p]) = 0
                    /\ file' = loaded'[p]]_vars

\* A deleteMedia that named a media id the episode does not hold was
\* answered 404: the episode's two media, and their objects, are as before.
C28_Witness ==
    \E p \in Procs :
        /\ pc[p] = "idle" /\ req[p].op = "deleteMedia" /\ resp[p].status = 404
        /\ req[p].sid = 1 /\ req[p].idx = 0 /\ req[p].mediaId = 0
        /\ saved[p] = None /\ issued[p] = <<>> /\ deleted = {}
        /\ file = UsedFile(backend) /\ assets = UsedAssets

\* Slot p's last request named a series that exists in the document its
\* handler loaded and an episode index that names none of its episodes.
IndexOutOfRange(p) ==
    /\ pc[p] = "idle" /\ req[p].op \in IndexOps /\ Precheck(req[p]) = 0
    /\ HasSeries(loaded[p]) /\ TargetIndex(loaded[p], req[p]) # -1
    /\ req[p].idx \notin 0..(Len(TargetSeries(loaded[p], req[p]).episodes) - 1)

\* C29: an episode operation whose index names no episode (past the end,
\* negative or not a number) is answered with the handler's own error
\* response, not with the 500 of an exception and not with silence; it saves
\* nothing, deletes no asset and leaves no new asset in the store.
C29_NoMissingEpisodeDereferenced ==
    \A p \in Procs :
        IndexOutOfRange(p) =>
            /\ resp[p].status \in {400, 404}
            /\ saved[p] = None
            /\ issued[p] = <<>>
            /\ \A i \in 1..Len(req[p].files) :
                  Key(UploadFolder(req[p].op), req[p].files[i].n) \notin assets

\* C30: after a POST /show, series[0] has as many episodes as its
\* episodeCount: the supplied episodes (the stored ones when none are
\* supplied) cut to the first episodeCount, or followed by empty episodes
\* titled 'Episode k' up to episodeCount; the other series are unchanged.
C30_LegacySaveReconciles ==
    \A p \in Procs :
        Completed(p, "show") =>
            LET d == loaded[p]
                s == saved[p][1].series[1]
                given == IF req[p].eps # None THEN req[p].eps[1]
                         ELSE IF Len(d.series) = 0 THEN <<>> ELSE d.series[1].episodes
                c == s.episodeCount
            IN  /\ Len(s.episodes) = c
                /\ \A i \in 1..Min(c, Len(given)) : s.episodes[i] = given[i]
                /\ \A k \in (Len(given) + 1)..c : s.episodes[k] = NewEpisode(k)
                /\ \A i \in 2..Len(d.series) : saved[p][1].series[i] = d.series[i]
                /\ Len(saved[p][1].series) = IF Len(d.series) = 0 THEN 1 ELSE Len(d.series)

====
